---------------------------- MODULE Spec2Model ----------------------------
(***************************************************************************)
(* A model of kbstats.c: the name registry (maxval, names, codename,       *)
(* get_keycode), the capture flow (do_capture, test_grab, print_events,    *)
(* interrupt_handler) and the one-shot state query (do_query,              *)
(* query_device).                                                          *)
(*                                                                         *)
(* Representation choices:                                                 *)
(*   - an unsigned int is a pair <<hi, lo>> of 16-bit halves (U32), since  *)
(*     the values 2^31 .. 2^32-1 matter in codename's comparison of an     *)
(*     unsigned code with the int maxval[type];                            *)
(*   - a C string handed to get_keycode is a record: lead says whether its *)
(*     first character is a decimal digit, s is the text (for a name) or   *)
(*     the sequence of its characters (for a numeral);                     *)
(*   - a pointer to one of the name tables is the table's name, NULL is    *)
(*     the distinguished string NULL.                                      *)
(***************************************************************************)
EXTENDS Integers, Sequences, FiniteSets, TLC

---------------------------------------------------------------------------
(* Protocol constants of <linux/input.h> as the build sees them.           *)

EV_SYN == 0
EV_KEY == 1
EV_REL == 2
EV_ABS == 3
EV_MSC == 4
EV_SW == 5
EV_LED == 17
EV_SND == 18
EV_REP == 20
EV_FF == 21
EV_PWR == 22
EV_FF_STATUS == 23
EV_MAX == 31

(* SYN_MAX as lines 75-78 define it; a kernel header that defines it       *)
(* larger only adds unnamed slots to syns.                                 *)
SYN_MAX == 3
KEY_MAX == 767
REL_MAX == 15
MSC_MAX == 7
SW_MAX == 16
LED_MAX == 15
SND_MAX == 7
REP_MAX == 1
FF_MAX == 127
FF_STATUS_MAX == 1

SYN_REPORT == 0
SYN_CONFIG == 1
SYN_MT_REPORT == 2
SYN_DROPPED == 3

EXIT_SUCCESS == 0
EXIT_FAILURE == 1

(* The null pointer. No C string of the model has this text.               *)
NULL == "<NULL>"

(* What a read outside an array yields: undefined.                         *)
WILD == "<wild>"

---------------------------------------------------------------------------
(* unsigned int, 32 bits, as two 16-bit halves.                            *)

HALF == 2 ^ 16

U32 == (0 .. HALF - 1) \X (0 .. HALF - 1)

(* A non-negative int below 2^31 as an unsigned int.                       *)
ToU32(n) == << n \div HALF, n % HALF >>

(* The conversion int -> unsigned int of C (value modulo 2^32).            *)
IntToU32(i) ==
    IF i >= 0 THEN ToU32(i)
    ELSE LET x == (i + 2147483647) + 1       \* i + 2^31, in 0 .. 2^31 - 1
         IN  << (x \div HALF) + 32768, x % HALF >>

(* u <= v on unsigned ints.                                                *)
ULe(u, v) == u[1] < v[1] \/ (u[1] = v[1] /\ u[2] <= v[2])

(* An unsigned int used as an array index (callers index only below 2^31). *)
Idx(u) == u[1] * HALF + u[2]

---------------------------------------------------------------------------
(* The name tables.                                                        *)

TableOf(size, pairs) ==
    [c \in 0 .. size - 1 |->
        IF \E p \in pairs : p[1] = c
        THEN (CHOOSE p \in pairs : p[1] = c)[2]
        ELSE NULL]

(* maxval with the slip [EV_FF_STATUS] = FF_MAX.                           *)
maxval_ff ==
    [t \in 0 .. EV_MAX |->
        CASE t = EV_SYN -> SYN_MAX
          [] t = EV_KEY -> KEY_MAX
          [] t = EV_REL -> REL_MAX
          [] t = EV_MSC -> MSC_MAX
          [] t = EV_SW -> SW_MAX
          [] t = EV_LED -> LED_MAX
          [] t = EV_SND -> SND_MAX
          [] t = EV_REP -> REP_MAX
          [] t = EV_FF -> FF_MAX
          [] t = EV_FF_STATUS -> FF_MAX
          [] OTHER -> -1]

maxval ==
    [t \in 0 .. EV_MAX |->
        CASE t = EV_SYN -> SYN_MAX
          [] t = EV_KEY -> KEY_MAX
          [] t = EV_REL -> REL_MAX
          [] t = EV_MSC -> MSC_MAX
          [] t = EV_SW -> SW_MAX
          [] t = EV_LED -> LED_MAX
          [] t = EV_SND -> SND_MAX
          [] t = EV_REP -> REP_MAX
          [] t = EV_FF -> FF_MAX
          [] t = EV_FF_STATUS -> FF_STATUS_MAX
          [] OTHER -> -1]

KeyNames == {
    <<0, "KEY_RESERVED">>, <<1, "KEY_ESC">>, <<2, "KEY_1">>, <<3, "KEY_2">>,
    <<4, "KEY_3">>, <<5, "KEY_4">>, <<6, "KEY_5">>, <<7, "KEY_6">>, <<8, "KEY_7">>,
    <<9, "KEY_8">>, <<10, "KEY_9">>, <<11, "KEY_0">>, <<12, "KEY_MINUS">>,
    <<13, "KEY_EQUAL">>, <<14, "KEY_BACKSPACE">>, <<15, "KEY_TAB">>, <<16, "KEY_Q">>,
    <<17, "KEY_W">>, <<18, "KEY_E">>, <<19, "KEY_R">>, <<20, "KEY_T">>,
    <<21, "KEY_Y">>, <<22, "KEY_U">>, <<23, "KEY_I">>, <<24, "KEY_O">>,
    <<25, "KEY_P">>, <<26, "KEY_LEFTBRACE">>, <<27, "KEY_RIGHTBRACE">>,
    <<28, "KEY_ENTER">>, <<29, "KEY_LEFTCTRL">>, <<30, "KEY_A">>, <<31, "KEY_S">>,
    <<32, "KEY_D">>, <<33, "KEY_F">>, <<34, "KEY_G">>, <<35, "KEY_H">>,
    <<36, "KEY_J">>, <<37, "KEY_K">>, <<38, "KEY_L">>, <<39, "KEY_SEMICOLON">>,
    <<40, "KEY_APOSTROPHE">>, <<41, "KEY_GRAVE">>, <<42, "KEY_LEFTSHIFT">>,
    <<43, "KEY_BACKSLASH">>, <<44, "KEY_Z">>, <<45, "KEY_X">>, <<46, "KEY_C">>,
    <<47, "KEY_V">>, <<48, "KEY_B">>, <<49, "KEY_N">>, <<50, "KEY_M">>,
    <<51, "KEY_COMMA">>, <<52, "KEY_DOT">>, <<53, "KEY_SLASH">>,
    <<54, "KEY_RIGHTSHIFT">>, <<55, "KEY_KPASTERISK">>, <<56, "KEY_LEFTALT">>,
    <<57, "KEY_SPACE">>, <<58, "KEY_CAPSLOCK">>, <<69, "KEY_NUMLOCK">>,
    <<70, "KEY_SCROLLLOCK">>, <<74, "KEY_KPMINUS">>, <<97, "KEY_RIGHTCTRL">>,
    <<100, "KEY_RIGHTALT">>, <<102, "KEY_HOME">>, <<103, "KEY_UP">>,
    <<104, "KEY_PAGEUP">>, <<105, "KEY_LEFT">>, <<106, "KEY_RIGHT">>,
    <<107, "KEY_END">>, <<108, "KEY_DOWN">>, <<109, "KEY_PAGEDOWN">>,
    <<110, "KEY_INSERT">>, <<111, "KEY_DELETE">>, <<112, "KEY_MACRO">>,
    <<113, "KEY_MUTE">>, <<114, "KEY_VOLUMEDOWN">>, <<115, "KEY_VOLUMEUP">>,
    <<116, "KEY_POWER">>, <<117, "KEY_KPEQUAL">>, <<118, "KEY_KPPLUSMINUS">>,
    <<119, "KEY_PAUSE">>, <<125, "KEY_LEFTMETA">>, <<126, "KEY_RIGHTMETA">>,
    <<127, "KEY_COMPOSE">>, <<128, "KEY_STOP">>, <<129, "KEY_AGAIN">>,
    <<130, "KEY_PROPS">>, <<131, "KEY_UNDO">>, <<132, "KEY_FRONT">>,
    <<133, "KEY_COPY">>, <<134, "KEY_OPEN">>, <<135, "KEY_PASTE">>,
    <<136, "KEY_FIND">>, <<137, "KEY_CUT">>, <<138, "KEY_HELP">>, <<139, "KEY_MENU">>,
    <<140, "KEY_CALC">>, <<141, "KEY_SETUP">>, <<142, "KEY_SLEEP">>,
    <<143, "KEY_WAKEUP">>, <<144, "KEY_FILE">>, <<145, "KEY_SENDFILE">>,
    <<146, "KEY_DELETEFILE">>, <<158, "KEY_BACK">>, <<159, "KEY_FORWARD">>,
    <<173, "KEY_REFRESH">>, <<174, "KEY_EXIT">>, <<175, "KEY_MOVE">>,
    <<176, "KEY_EDIT">>, <<177, "KEY_SCROLLUP">>, <<178, "KEY_SCROLLDOWN">>,
    <<179, "KEY_KPLEFTPAREN">>, <<180, "KEY_KPRIGHTPAREN">>,
    <<224, "KEY_BRIGHTNESSDOWN">>, <<225, "KEY_BRIGHTNESSUP">>,
    <<512, "KEY_NUMERIC_0">>, <<513, "KEY_NUMERIC_1">>, <<514, "KEY_NUMERIC_2">>,
    <<515, "KEY_NUMERIC_3">>, <<516, "KEY_NUMERIC_4">>, <<517, "KEY_NUMERIC_5">>,
    <<518, "KEY_NUMERIC_6">>, <<519, "KEY_NUMERIC_7">>, <<520, "KEY_NUMERIC_8">>,
    <<521, "KEY_NUMERIC_9">>, <<522, "KEY_NUMERIC_STAR">>,
    <<523, "KEY_NUMERIC_POUND">>, <<592, "KEY_BRIGHTNESS_MIN">>,
    <<593, "KEY_BRIGHTNESS_MAX">>
    }

keys == TableOf(KEY_MAX + 1, KeyNames)

SynNames ==
    { <<SYN_REPORT, "SYN_REPORT">>, <<SYN_CONFIG, "SYN_CONFIG">>,
      <<SYN_MT_REPORT, "SYN_MT_REPORT">>, <<SYN_DROPPED, "SYN_DROPPED">> }

syns == TableOf(SYN_MAX + 1, SynNames)

ForceStatusNames == { <<0, "FF_STATUS_STOPPED">>, <<1, "FF_STATUS_PLAYING">> }

forcestatus == TableOf(FF_STATUS_MAX + 1, ForceStatusNames)

names ==
    [t \in 0 .. EV_MAX |->
        CASE t = EV_SYN -> "syns"
          [] t = EV_KEY -> "keys"
          [] t = EV_FF_STATUS -> "forcestatus"
          [] OTHER -> NULL]

(* The array a table pointer points to.                                    *)
Deref(p) ==
    CASE p = "syns" -> syns
      [] p = "keys" -> keys
      [] p = "forcestatus" -> forcestatus

(* p[code] for a table pointer p and an unsigned code.                     *)
Load(p, code) ==
    IF code[1] < 32768 /\ Idx(code) \in DOMAIN Deref(p)
    THEN Deref(p)[Idx(code)]
    ELSE WILD

---------------------------------------------------------------------------
(* codename: the name and, in evaluation order (&& short-circuits), the    *)
(* array elements the expression reads.                                    *)

codename(type, code) ==
    IF ~ ULe(type, ToU32(EV_MAX))
    THEN [name |-> "?", reads |-> << >>]
    ELSE IF ~ ULe(code, IntToU32(maxval[Idx(type)]))
    THEN [name |-> "?", reads |-> << <<"maxval", type>> >>]
    ELSE IF names[Idx(type)] = NULL
    THEN [name |-> "?",
          reads |-> << <<"maxval", type>>, <<"names", type>> >>]
    ELSE [name |-> IF Load(names[Idx(type)], code) # NULL
                   THEN Load(names[Idx(type)], code)
                   ELSE "?",
          reads |-> << <<"maxval", type>>, <<"names", type>>,
                       <<names[Idx(type)], code>> >>]

---------------------------------------------------------------------------
(* query_modes and get_keycode.                                            *)

SetMin(S) == CHOOSE x \in S : \A y \in S : x <= y

EVIOCGKEY == "EVIOCGKEY"

query_modes ==
    << [name |-> "EV_KEY", event_type |-> EV_KEY, max |-> KEY_MAX,
        rq |-> EVIOCGKEY] >>

(* find_query_mode_by_name: the index of the first entry of that name, 0   *)
(* for the null pointer.                                                   *)
find_query_mode_by_name(name) ==
    IF \E i \in DOMAIN query_modes : query_modes[i].name = name
    THEN SetMin({ i \in DOMAIN query_modes : query_modes[i].name = name })
    ELSE 0

find_query_mode(query_mode) == find_query_mode_by_name(query_mode)

(* C strings handed to get_keycode.                                        *)
Str(text) == [lead |-> "other", s |-> text]
Num(chars) == [lead |-> "digit", s |-> chars]

isdigit0(kstr) == kstr.lead = "digit"

DigitVal ==
    [ch \in {"0","1","2","3","4","5","6","7","8","9",
             "a","b","c","d","e","f","A","B","C","D","E","F"} |->
        CASE ch = "0" -> 0 [] ch = "1" -> 1 [] ch = "2" -> 2 [] ch = "3" -> 3
          [] ch = "4" -> 4 [] ch = "5" -> 5 [] ch = "6" -> 6 [] ch = "7" -> 7
          [] ch = "8" -> 8 [] ch = "9" -> 9
          [] ch \in {"a", "A"} -> 10 [] ch \in {"b", "B"} -> 11
          [] ch \in {"c", "C"} -> 12 [] ch \in {"d", "D"} -> 13
          [] ch \in {"e", "E"} -> 14 [] ch \in {"f", "F"} -> 15]

IsDigitIn(ch, base) == ch \in DOMAIN DigitVal /\ DigitVal[ch] < base

(* unsigned long (64 bits) as four 16-bit limbs, least significant first,  *)
(* with the overflow strtoul reports as ERANGE.                            *)
ULZero == [limbs |-> <<0, 0, 0, 0>>, erange |-> FALSE]

RECURSIVE MulAddLimbs(_, _, _)
MulAddLimbs(limbs, base, carry) ==
    IF limbs = << >> THEN [limbs |-> << >>, carry |-> carry]
    ELSE LET v == Head(limbs) * base + carry
             rest == MulAddLimbs(Tail(limbs), base, v \div HALF)
         IN  [limbs |-> << v % HALF >> \o rest.limbs, carry |-> rest.carry]

RECURSIVE Accumulate(_, _, _, _)
Accumulate(chars, i, base, acc) ==
    IF i > Len(chars) \/ ~ IsDigitIn(chars[i], base) THEN acc
    ELSE LET r == MulAddLimbs(acc.limbs, base, DigitVal[chars[i]])
         IN  Accumulate(chars, i + 1, base,
                        [limbs |-> r.limbs,
                         erange |-> acc.erange \/ r.carry # 0])

(* strtoul(kstr, NULL, 0): base 16 after "0x"/"0X" and a hex digit, base 8 *)
(* after "0", base 10 otherwise; the longest prefix of digits is used.     *)
strtoul(chars) ==
    IF /\ Len(chars) >= 3 /\ chars[1] = "0" /\ chars[2] \in {"x", "X"}
       /\ IsDigitIn(chars[3], 16)
    THEN Accumulate(chars, 3, 16, ULZero)
    ELSE IF Len(chars) >= 1 /\ chars[1] = "0"
    THEN Accumulate(chars, 2, 8, ULZero)
    ELSE Accumulate(chars, 1, 10, ULZero)

(* (int)val: the low 32 bits, two's complement.                            *)
ULToInt(limbs) ==
    IF limbs[2] >= 32768 THEN (limbs[2] - HALF) * HALF + limbs[1]
    ELSE limbs[2] * HALF + limbs[1]

(* get_keycode with the slip for (i = 1; ...).                             *)
get_keycode_from1(query_mode, kstr) ==
    IF isdigit0(kstr)
    THEN LET val == strtoul(kstr.s)
         IN  IF val.erange THEN -1 ELSE ULToInt(val.limbs)
    ELSE LET keynames == Deref(names[query_mode.event_type])
             hits == { i \in 1 .. query_mode.max - 1 :
                          keynames[i] # NULL /\ keynames[i] = kstr.s }
         IN  IF hits = {} THEN -1 ELSE SetMin(hits)

get_keycode(query_mode, kstr) ==
    IF isdigit0(kstr)
    THEN LET val == strtoul(kstr.s)
         IN  IF val.erange THEN -1 ELSE ULToInt(val.limbs)
    ELSE LET keynames == Deref(names[query_mode.event_type])
             hits == { i \in 0 .. query_mode.max - 1 :
                          keynames[i] # NULL /\ keynames[i] = kstr.s }
         IN  IF hits = {} THEN -1 ELSE SetMin(hits)

---------------------------------------------------------------------------
(* Bounds of the model.                                                    *)

(* How many events the device produces in one run.                         *)
MaxEvents == 3

(* How far beyond KEY_MAX the codes handed to codename go, one by one.     *)
CodeMargin == 1

---------------------------------------------------------------------------
VARIABLES
    \* the capture flow: do_capture, test_grab, print_events
    pc,         \* where the process is in do_capture / print_events
    grab_flag,  \* the grab_flag argument of do_capture
    fd_open,    \* the descriptor opened by do_capture is open
    grabbed,    \* this descriptor holds the exclusive grab (kernel state)
    handlers,   \* the signals interrupt_handler is installed for
    stop,       \* the flag interrupt_handler sets
    rdfs,       \* the fd_set handed to select
    avail,      \* events the kernel has queued for the descriptor
    produced,   \* how many events the device has produced so far
    ev,         \* the records the last read() stored in ev[]
    rd,         \* the byte count the last read() returned
    i,          \* the index of print_events' for loop
    out,        \* the lines print_events' for loop has printed
    result,     \* what do_capture returned
    ioctls,     \* the ioctl requests issued on the descriptor, in order
    \* history of the capture flow
    pe_entry,   \* Len(ioctls) when print_events was entered, -1 before
    rds,        \* the byte count of every read(), in order
    decoded,    \* every record the for loop decoded: its type, code,
                \* resolved name, whether it was printed, and its read
    \* the query flow: do_query, query_device
    qpc,        \* where the process is in do_query / query_device
    q_device,   \* the device argument of do_query
    keyname,    \* the keyname argument of do_query
    keycode,    \* do_query's keycode
    q_fd_open,  \* the descriptor opened by query_device is open
    state,      \* query_device's state[] buffer
    r,          \* what query_device's ioctl returned
    dev_keys,   \* the keys held on the device when it was queried
    qresult,    \* what do_query returned
    qcalls,     \* the system calls the query issued on the device
    \* registry lookups
    n_pc,       \* "input", "looked", "resolved"
    n_type,     \* the unsigned type handed to codename
    n_code,     \* the unsigned code handed to codename
    n_look,     \* what codename returned and read
    n_back      \* what get_keycode returned for the name

cvars == << pc, grab_flag, fd_open, grabbed, handlers, stop, rdfs, avail,
            produced, ev, rd, i, out, result, ioctls, pe_entry, rds, decoded >>

qvars == << qpc, q_device, keyname, keycode, q_fd_open, state, r, dev_keys,
            qresult, qcalls >>

nvars == << n_pc, n_type, n_code, n_look, n_back >>

vars == << cvars, qvars, nvars >>

---------------------------------------------------------------------------
(* The capture flow.                                                       *)

(* sizeof(struct input_event) on the 64-bit build, and the length of ev[]. *)
EVENT_SIZE == 24
EV_BUF_LEN == 64

(* The descriptor open() returned.                                         *)
FD == "fd"

(* No exit status yet: not a value either flow returns.                    *)
RUNNING == 0 - 1

(* The (type, code) pairs the device may deliver; the value and timestamp  *)
(* of a record are never read by print_events.                             *)
EventSamples ==
    { [type |-> EV_KEY, code |-> 30],            \* KEY_A
      [type |-> EV_KEY, code |-> 48],            \* KEY_B
      [type |-> EV_KEY, code |-> 0],             \* KEY_RESERVED
      [type |-> EV_SYN, code |-> SYN_REPORT],
      [type |-> EV_SYN, code |-> SYN_CONFIG],
      [type |-> EV_MSC, code |-> 4] }            \* MSC_SCAN: no name table

(* Bytes of an incomplete record a read may end with.                      *)
PartialBytes == {0, 3}

CaptureIdle ==
    /\ pc = "idle" /\ grab_flag = FALSE /\ fd_open = FALSE
    /\ grabbed = FALSE /\ handlers = {} /\ stop = 0 /\ rdfs = {}
    /\ avail = << >> /\ produced = 0 /\ ev = << >> /\ rd = 0 /\ i = 0
    /\ out = << >> /\ result = RUNNING /\ ioctls = << >>
    /\ pe_entry = -1 /\ rds = << >> /\ decoded = << >>

CaptureInit ==
    /\ pc = "do_capture"
    /\ grab_flag \in BOOLEAN
    /\ fd_open = FALSE /\ grabbed = FALSE /\ handlers = {} /\ stop = 0
    /\ rdfs = {} /\ avail = << >> /\ produced = 0 /\ ev = << >> /\ rd = 0
    /\ i = 0 /\ out = << >> /\ result = RUNNING /\ ioctls = << >>
    /\ pe_entry = -1 /\ rds = << >> /\ decoded = << >>

(* do_capture, lines 573-587: the file name is resolved (scan_devices or   *)
(* strdup); without one do_capture returns a failure before any open.      *)
ResolveDevice ==
    /\ pc = "do_capture"
    /\ \E have_name \in BOOLEAN :
          IF have_name
          THEN pc' = "open" /\ result' = result
          ELSE pc' = "returned" /\ result' = EXIT_FAILURE
    /\ UNCHANGED << grab_flag, fd_open, grabbed, handlers, stop, rdfs, avail,
                    produced, ev, rd, i, out, ioctls, pe_entry, rds, decoded >>
    /\ UNCHANGED << qvars, nvars >>

(* do_capture, lines 589-597: open; on failure goto error.                 *)
OpenDevice ==
    /\ pc = "open"
    /\ \E ok \in BOOLEAN :
          IF ok
          THEN pc' = "info" /\ fd_open' = TRUE /\ result' = result
          ELSE pc' = "returned" /\ fd_open' = FALSE /\ result' = EXIT_FAILURE
    /\ UNCHANGED << grab_flag, grabbed, handlers, stop, rdfs, avail, produced,
                    ev, rd, i, out, ioctls, pe_entry, rds, decoded >>
    /\ UNCHANGED << qvars, nvars >>

(* do_capture, lines 602-603 with print_device_info: a failing             *)
(* EVIOCGVERSION returns 1 and do_capture jumps to error, which frees the  *)
(* name and returns; the other three ioctls are not checked.               *)
DeviceInfo ==
    /\ pc = "info"
    /\ \E version_ok \in BOOLEAN :
          IF version_ok
          THEN /\ ioctls' = ioctls \o << <<"EVIOCGVERSION", 0>>,
                                         <<"EVIOCGID", 0>>,
                                         <<"EVIOCGNAME", 0>>,
                                         <<"EVIOCGBIT", 0>> >>
               /\ pc' = "test_grab" /\ result' = result
          ELSE /\ ioctls' = Append(ioctls, <<"EVIOCGVERSION", 0>>)
               /\ pc' = "returned" /\ result' = EXIT_FAILURE
    /\ UNCHANGED << grab_flag, fd_open, grabbed, handlers, stop, rdfs, avail,
                    produced, ev, rd, i, out, pe_entry, rds, decoded >>
    /\ UNCHANGED << qvars, nvars >>

(* test_grab: grab, and ungrab at once unless the grab is to be kept. A    *)
(* failed grab (another process holds it) is only reported.                *)
TestGrab ==
    /\ pc = "test_grab"
    /\ \E rc \in {0, -1} :
          IF rc = 0 /\ ~ grab_flag
          THEN /\ ioctls' = ioctls \o << <<"EVIOCGRAB", 1>>, <<"EVIOCGRAB", 0>> >>
               /\ grabbed' = FALSE
          ELSE /\ ioctls' = Append(ioctls, <<"EVIOCGRAB", 1>>)
               /\ grabbed' = (rc = 0)
    /\ pc' = "signal_int"
    /\ UNCHANGED << grab_flag, fd_open, handlers, stop, rdfs, avail, produced,
                    ev, rd, i, out, result, pe_entry, rds, decoded >>
    /\ UNCHANGED << qvars, nvars >>

(* do_capture, lines 621-622.                                              *)
InstallSigint ==
    /\ pc = "signal_int"
    /\ handlers' = handlers \cup {"SIGINT"}
    /\ pc' = "signal_term"
    /\ UNCHANGED << grab_flag, fd_open, grabbed, stop, rdfs, avail, produced,
                    ev, rd, i, out, result, ioctls, pe_entry, rds, decoded >>
    /\ UNCHANGED << qvars, nvars >>

InstallSigterm ==
    /\ pc = "signal_term"
    /\ handlers' = handlers \cup {"SIGTERM"}
    /\ pc' = "print_events"
    /\ UNCHANGED << grab_flag, fd_open, grabbed, stop, rdfs, avail, produced,
                    ev, rd, i, out, result, ioctls, pe_entry, rds, decoded >>
    /\ UNCHANGED << qvars, nvars >>

(* print_events, lines 512-513: FD_ZERO, FD_SET.                           *)
PrintEventsEnter ==
    /\ pc = "print_events"
    /\ rdfs' = {FD}
    /\ pe_entry' = Len(ioctls)
    /\ pc' = "loop_head"
    /\ UNCHANGED << grab_flag, fd_open, grabbed, handlers, stop, avail,
                    produced, ev, rd, i, out, result, ioctls, rds, decoded >>
    /\ UNCHANGED << qvars, nvars >>

(* while (!stop)                                                           *)
LoopHead ==
    /\ pc = "loop_head"
    /\ pc' = IF stop = 0 THEN "select" ELSE "ungrab"
    /\ UNCHANGED << grab_flag, fd_open, grabbed, handlers, stop, rdfs, avail,
                    produced, ev, rd, i, out, result, ioctls, pe_entry, rds,
                    decoded >>
    /\ UNCHANGED << qvars, nvars >>

(* select(fd + 1, &rdfs, NULL, NULL, NULL) is called: the process starts   *)
(* to wait, without a timeout.                                             *)
SelectEnter ==
    /\ pc = "select"
    /\ pc' = "select_wait"
    /\ UNCHANGED << grab_flag, fd_open, grabbed, handlers, stop, rdfs, avail,
                    produced, ev, rd, i, out, result, ioctls, pe_entry, rds,
                    decoded >>
    /\ UNCHANGED << qvars, nvars >>

(* select returns because the descriptor is readable.                      *)
SelectReturn ==
    /\ pc = "select_wait"
    /\ FD \in rdfs
    /\ avail # << >>
    /\ pc' = "check_stop"
    /\ UNCHANGED << grab_flag, fd_open, grabbed, handlers, stop, rdfs, avail,
                    produced, ev, rd, i, out, result, ioctls, pe_entry, rds,
                    decoded >>
    /\ UNCHANGED << qvars, nvars >>

(* The same with the slip of leaving out if (stop) break;.                 *)
CheckStop_absent ==
    /\ pc = "check_stop"
    /\ pc' = "read"
    /\ UNCHANGED << grab_flag, fd_open, grabbed, handlers, stop, rdfs, avail,
                    produced, ev, rd, i, out, result, ioctls, pe_entry, rds,
                    decoded >>
    /\ UNCHANGED << qvars, nvars >>

(* if (stop) break;                                                        *)
CheckStop ==
    /\ pc = "check_stop"
    /\ pc' = IF stop # 0 THEN "ungrab" ELSE "read"
    /\ UNCHANGED << grab_flag, fd_open, grabbed, handlers, stop, rdfs, avail,
                    produced, ev, rd, i, out, result, ioctls, pe_entry, rds,
                    decoded >>
    /\ UNCHANGED << qvars, nvars >>

Min(a, b) == IF a <= b THEN a ELSE b

(* The test of line 521.                                                   *)
short_read(count) == count < EVENT_SIZE

(* rd = read(fd, ev, sizeof(ev)) and the test of lines 521-526: the read   *)
(* fails (-1), or delivers n whole records, n at most what is queued and   *)
(* what ev[] holds, possibly followed by part of a record.                 *)
Read ==
    /\ pc = "read"
    /\ \E failed \in BOOLEAN, n \in 0 .. Min(Len(avail), EV_BUF_LEN),
          extra \in PartialBytes :
          LET count == IF failed THEN -1 ELSE n * EVENT_SIZE + extra
              taken == IF failed THEN 0 ELSE n
          IN  /\ rd' = count
              /\ rds' = Append(rds, count)
              /\ ev' = SubSeq(avail, 1, taken)
              /\ avail' = SubSeq(avail, taken + 1, Len(avail))
              /\ IF short_read(count)
                 THEN pc' = "returned" /\ result' = 1
                 ELSE pc' = "drain" /\ result' = result
    /\ i' = 0
    /\ UNCHANGED << grab_flag, fd_open, grabbed, handlers, stop, rdfs,
                    produced, out, ioctls, pe_entry, decoded >>
    /\ UNCHANGED << qvars, nvars >>

(* The test of line 535 on a record's code and resolved name.              *)
should_print(code, code_name) == code # ToU32(SYN_REPORT) /\ code_name # "?"

(* One round of the for loop of lines 528-538, or its end.                 *)
Drain ==
    /\ pc = "drain"
    /\ IF i < rd \div EVENT_SIZE
       THEN LET type == ToU32(ev[i + 1].type)
                code == ToU32(ev[i + 1].code)
                code_name == codename(type, code).name
                shown == should_print(code, code_name)
            IN  /\ out' = IF shown THEN Append(out, code_name) ELSE out
                /\ decoded' = Append(decoded,
                                     [type |-> ev[i + 1].type,
                                      code |-> ev[i + 1].code,
                                      name |-> code_name,
                                      printed |-> shown,
                                      read |-> Len(rds)])
                /\ i' = i + 1
                /\ pc' = pc
       ELSE /\ pc' = "loop_head"
            /\ UNCHANGED << out, decoded, i >>
    /\ UNCHANGED << grab_flag, fd_open, grabbed, handlers, stop, rdfs, avail,
                    produced, ev, rd, result, ioctls, pe_entry, rds >>
    /\ UNCHANGED << qvars, nvars >>

(* Lines 541-542: ioctl(fd, EVIOCGRAB, 0) and return EXIT_SUCCESS.         *)
Ungrab ==
    /\ pc = "ungrab"
    /\ ioctls' = Append(ioctls, <<"EVIOCGRAB", 0>>)
    /\ grabbed' = FALSE
    /\ pc' = "returned"
    /\ result' = EXIT_SUCCESS
    /\ UNCHANGED << grab_flag, fd_open, handlers, stop, rdfs, avail, produced,
                    ev, rd, i, out, pe_entry, rds, decoded >>
    /\ UNCHANGED << qvars, nvars >>

(* interrupt_handler runs for a signal whose handler is installed; a       *)
(* select that is waiting returns -1 (EINTR).                              *)
Signal ==
    /\ pc # "returned"
    /\ \E sig \in handlers : stop' = 1
    /\ pc' = IF pc = "select_wait" THEN "check_stop" ELSE pc
    /\ UNCHANGED << grab_flag, fd_open, grabbed, handlers, rdfs, avail,
                    produced, ev, rd, i, out, result, ioctls, pe_entry, rds,
                    decoded >>
    /\ UNCHANGED << qvars, nvars >>

(* The device produces an event; the kernel queues it for the descriptor.  *)
DeviceEvent ==
    /\ fd_open
    /\ pc # "returned"
    /\ produced < MaxEvents
    /\ \E e \in EventSamples : avail' = Append(avail, e)
    /\ produced' = produced + 1
    /\ UNCHANGED << pc, grab_flag, fd_open, grabbed, handlers, stop, rdfs, ev,
                    rd, i, out, result, ioctls, pe_entry, rds, decoded >>
    /\ UNCHANGED << qvars, nvars >>

CaptureStep ==
    \/ ResolveDevice \/ OpenDevice \/ DeviceInfo \/ TestGrab
    \/ InstallSigint \/ InstallSigterm \/ PrintEventsEnter
    \/ LoopHead \/ SelectEnter \/ SelectReturn \/ CheckStop
    \/ Read \/ Drain \/ Ungrab

---------------------------------------------------------------------------
(* The query flow.                                                         *)

BITS_PER_LONG == 64
NBITS(x) == ((x - 1) \div BITS_PER_LONG) + 1
OFF(x) == x % BITS_PER_LONG
LONG(x) == x \div BITS_PER_LONG

(* An unsigned long of the state buffer is the set of the positions of its *)
(* 1 bits; (array[LONG(bit)] >> OFF(bit)) & 1 asks whether OFF(bit) is one.*)
(* test_bit with the slip array[0] for array[LONG(bit)].                   *)
test_bit_word0(bit, array) == OFF(bit) \in array[0]

test_bit(bit, array) == OFF(bit) \in array[LONG(bit)]

(* memset(state, 0, sizeof(state)) for state[NBITS(max)].                  *)
ZeroState(max) == [w \in 0 .. NBITS(max) - 1 |-> {}]

(* What a successful EVIOCGKEY stores for the set of held keys.            *)
KeyBits(max, held) ==
    [w \in 0 .. NBITS(max) - 1 |-> { OFF(b) : b \in { k \in held : LONG(k) = w } }]

(* The keyname arguments tried.                                            *)
KeynameSamples ==
    { Str("KEY_A"), Str("KEY_RESERVED"), Str("KEY_BRIGHTNESS_MAX"),
      Str("SYN_CONFIG"), Str("KEY_NOPE"),
      Num(<<"0">>), Num(<<"3", "0">>), Num(<<"6", "4">>),
      Num(<<"0", "x", "1", "e">>), Num(<<"0", "1", "7">>),
      Num(<<"1", "2", "a", "b", "c">>),
      Num(<<"7", "6", "6">>), Num(<<"7", "6", "7">>), Num(<<"7", "6", "8">>),
      Num(<<"0", "x", "2", "F", "F">>), Num(<<"0", "x", "3", "0", "0">>),
      Num(<<"2", "1", "4", "7", "4", "8", "3", "6", "4", "8">>),
      Num(<<"4", "2", "9", "4", "9", "6", "7", "2", "9", "5">>),
      Num(<<"4", "2", "9", "4", "9", "6", "7", "3", "2", "6">>),
      Num(<<"9", "9", "9", "9", "9", "9", "9", "9", "9", "9",
            "9", "9", "9", "9", "9", "9", "9", "9", "9", "9">>) }

DevicePath == "/dev/input/event0"

(* The keys that may be held on the device.                                *)
HeldSamples == {0, 30, 64, KEY_MAX}

QueryIdle ==
    /\ qpc = "idle" /\ q_device = NULL /\ keyname = Str("") /\ keycode = 0
    /\ q_fd_open = FALSE /\ state = ZeroState(KEY_MAX) /\ r = 0
    /\ dev_keys = {} /\ qresult = RUNNING /\ qcalls = << >>

QueryInit ==
    /\ qpc = "do_query"
    /\ q_device \in {NULL, DevicePath}
    /\ keyname \in KeynameSamples
    /\ keycode = 0
    /\ q_fd_open = FALSE
    /\ state = ZeroState(KEY_MAX)
    /\ r = 0
    /\ dev_keys = {}
    /\ qresult = RUNNING
    /\ qcalls = << >>

(* The same with the slip keycode > query_mode->max + 1.                   *)
keycode_verdict_lax(query_mode, code) ==
    IF code < 0 THEN "usage"
    ELSE IF code > query_mode.max + 1 THEN "out_of_bounds"
    ELSE "query"

(* The two tests of lines 694-700 on the resolved code.                    *)
keycode_verdict(query_mode, code) ==
    IF code < 0 THEN "usage"
    ELSE IF code > query_mode.max THEN "out_of_bounds"
    ELSE "query"

(* do_query up to the call of query_device. The event_type argument is     *)
(* not used: the mode looked up is always "EV_KEY". usage() returns        *)
(* EXIT_FAILURE.                                                           *)
DoQuery ==
    /\ qpc = "do_query"
    /\ IF q_device = NULL \/ find_query_mode("EV_KEY") = 0
       THEN /\ qpc' = "q_returned" /\ qresult' = EXIT_FAILURE
            /\ keycode' = keycode
       ELSE LET query_mode == query_modes[find_query_mode("EV_KEY")]
                code == get_keycode(query_mode, keyname)
            IN  /\ keycode' = code
                /\ IF keycode_verdict(query_mode, code) = "query"
                   THEN qpc' = "query_device" /\ qresult' = qresult
                   ELSE qpc' = "q_returned" /\ qresult' = EXIT_FAILURE
    /\ UNCHANGED << q_device, keyname, q_fd_open, state, r, dev_keys, qcalls >>
    /\ UNCHANGED << cvars, nvars >>

(* query_device, lines 648-653: open, then memset.                         *)
QueryOpen ==
    /\ qpc = "query_device"
    /\ qcalls' = Append(qcalls, "open")
    /\ \E ok \in BOOLEAN :
          IF ok
          THEN /\ q_fd_open' = TRUE
               /\ state' = ZeroState(query_modes[find_query_mode("EV_KEY")].max)
               /\ qpc' = "q_ioctl" /\ qresult' = qresult
          ELSE /\ q_fd_open' = FALSE /\ state' = state
               /\ qpc' = "q_returned" /\ qresult' = EXIT_FAILURE
    /\ UNCHANGED << q_device, keyname, keycode, r, dev_keys >>
    /\ UNCHANGED << cvars, nvars >>

(* r = ioctl(fd, query_mode->rq, state): on success the kernel stores the  *)
(* bits of the held keys; on failure r is -1 and what state holds is not   *)
(* specified.                                                              *)
QueryIoctl ==
    /\ qpc = "q_ioctl"
    /\ qcalls' = Append(qcalls, "ioctl")
    /\ \E held \in SUBSET HeldSamples, ok \in BOOLEAN,
          left \in SUBSET HeldSamples :
          LET max == query_modes[find_query_mode("EV_KEY")].max
          IN  /\ dev_keys' = held
              /\ IF ok
                 THEN r' = NBITS(max) * 8 /\ state' = KeyBits(max, held)
                 ELSE r' = -1 /\ state' = KeyBits(max, left)
    /\ qpc' = "q_close"
    /\ UNCHANGED << q_device, keyname, keycode, q_fd_open, qresult >>
    /\ UNCHANGED << cvars, nvars >>

(* close(fd), line 655.                                                    *)
QueryClose ==
    /\ qpc = "q_close"
    /\ qcalls' = Append(qcalls, "close")
    /\ q_fd_open' = FALSE
    /\ qpc' = "q_result"
    /\ UNCHANGED << q_device, keyname, keycode, state, r, dev_keys, qresult >>
    /\ UNCHANGED << cvars, nvars >>

(* Lines 657-665.                                                          *)
QueryResult ==
    /\ qpc = "q_result"
    /\ qresult' = IF r = -1 THEN EXIT_FAILURE
                  ELSE IF test_bit(keycode, state) THEN 10 ELSE 0
    /\ qpc' = "q_returned"
    /\ UNCHANGED << q_device, keyname, keycode, q_fd_open, state, r, dev_keys,
                    qcalls >>
    /\ UNCHANGED << cvars, nvars >>

---------------------------------------------------------------------------
(* Registry lookups: codename on a (type, code) pair, then get_keycode on   *)
(* the name it produced.                                                   *)

UINT_MAX == << HALF - 1, HALF - 1 >>

TypeSamples ==
    { ToU32(t) : t \in {EV_SYN, EV_KEY, EV_REL, EV_ABS, EV_MSC, EV_PWR,
                        EV_FF_STATUS, EV_MAX, EV_MAX + 1, HALF - 1} }
    \cup { <<1, 0>>, <<32768, EV_KEY>>, UINT_MAX }

CodeSamples ==
    { ToU32(c) : c \in 0 .. KEY_MAX + CodeMargin }
    \cup { ToU32(HALF - 1), <<1, 30>>, <<32767, HALF - 1>>, <<32768, 0>>,
           UINT_MAX }

NoLook == [name |-> NULL, reads |-> << >>]

NamesIdle ==
    /\ n_pc = "idle" /\ n_type = ToU32(0) /\ n_code = ToU32(0)
    /\ n_look = NoLook /\ n_back = -1

NamesInit ==
    /\ CaptureIdle
    /\ QueryIdle
    /\ n_pc = "input"
    /\ n_type \in TypeSamples
    /\ n_code \in CodeSamples
    /\ n_look = NoLook
    /\ n_back = -1

Lookup ==
    /\ n_pc = "input"
    /\ n_look' = codename(n_type, n_code)
    /\ n_pc' = "looked"
    /\ UNCHANGED << n_type, n_code, n_back >>
    /\ UNCHANGED << cvars, qvars >>

Resolve ==
    /\ n_pc = "looked"
    /\ n_look.name # "?"
    /\ \E m \in DOMAIN query_modes :
          n_back' = get_keycode(query_modes[m], Str(n_look.name))
    /\ n_pc' = "resolved"
    /\ UNCHANGED << n_type, n_code, n_look >>
    /\ UNCHANGED << cvars, qvars >>

NamesNext == Lookup \/ Resolve

---------------------------------------------------------------------------
(* The specifications: one per flow, the other flows idle.                 *)

CaptureNext == CaptureStep \/ Signal \/ DeviceEvent

Init == CaptureInit /\ QueryIdle /\ NamesIdle

Next == CaptureNext

(* The capture flow, with the signals and the device as its environment.   *)
Spec == Init /\ [][Next]_vars

(* The same, the process always scheduled: a step of the program that can  *)
(* be taken is taken eventually. Nothing obliges the device to produce an  *)
(* event or anyone to send a signal.                                       *)
FairSpec == Init /\ [][Next]_vars /\ WF_vars(CaptureStep)

QueryNext == DoQuery \/ QueryOpen \/ QueryIoctl \/ QueryClose \/ QueryResult

QueryStart == QueryInit /\ CaptureIdle /\ NamesIdle

QuerySpec == QueryStart /\ [][QueryNext]_vars

NamesSpec == NamesInit /\ [][NamesNext]_vars

---------------------------------------------------------------------------
(* Claims about the capture flow.                                          *)

IsMarker(d) == d.type = EV_SYN

NonMarkerResolved(d) == ~ IsMarker(d) /\ d.name # "?"

(* The name of the last non-marker resolved record decoded before the      *)
(* k-th, "" when there is none.                                            *)
PrevName(k) ==
    LET before == { j \in 1 .. k - 1 : NonMarkerResolved(decoded[j]) }
    IN  IF before = {} THEN ""
        ELSE decoded[CHOOSE j \in before : \A m \in before : m <= j].name

(* C1: consecutive-duplicate suppression: a non-marker record whose name   *)
(* resolves is printed only if its name differs from the name of the       *)
(* non-marker resolved record decoded immediately before it (in the same   *)
(* read or an earlier one).                                                *)
C1_PrintedOnlyIfDiffers ==
    \A k \in DOMAIN decoded :
        (NonMarkerResolved(decoded[k]) /\ decoded[k].printed)
            => decoded[k].name # PrevName(k)

(* C2: no record of type EV_SYN is printed, whatever its code, and a       *)
(* record that repeats the name of the last non-marker record, with only   *)
(* markers in between, is not printed again.                               *)
C2_MarkersNeverPrinted ==
    \A k \in DOMAIN decoded :
        /\ IsMarker(decoded[k]) => ~ decoded[k].printed
        /\ \A j \in 1 .. k - 2 :
              ( /\ NonMarkerResolved(decoded[j])
                /\ NonMarkerResolved(decoded[k])
                /\ decoded[j].name = decoded[k].name
                /\ \A m \in j + 1 .. k - 1 : IsMarker(decoded[m]) )
              => ~ decoded[k].printed

(* C3: once a signal has set stop, print_events eventually returns,        *)
(* whether or not the device produces another event.                       *)
C3_StopLeadsToReturn == (stop = 1) ~> (pc = "returned")

(* C4: whenever print_events has returned, ioctl(fd, EVIOCGRAB, 0) was     *)
(* issued after it was entered.                                            *)
C4_ReleasedOnReturn ==
    (pc = "returned" /\ pe_entry >= 0)
        => \E k \in pe_entry + 1 .. Len(ioctls) : ioctls[k] = <<"EVIOCGRAB", 0>>

PositiveMultiple(count) == count > 0 /\ count % EVENT_SIZE = 0

(* C5: a read whose byte count is not a positive multiple of the record    *)
(* size ends the capture with a failure, it is the last read, and no       *)
(* record of it is printed.                                                *)
C5_BadCountIsFatal ==
    \A k \in DOMAIN rds :
        ~ PositiveMultiple(rds[k])
            => /\ pc = "returned"
               /\ result = EXIT_FAILURE
               /\ k = Len(rds)
               /\ \A n \in DOMAIN decoded :
                     decoded[n].read = k => ~ decoded[n].printed

(* C10: whenever do_capture or query_device has returned, the descriptor   *)
(* it opened is closed.                                                    *)
C10_ClosedOnReturn ==
    /\ pc = "returned" => ~ fd_open
    /\ qpc = "q_returned" => ~ q_fd_open

(* C11: the cancellation check precedes the read: when select has         *)
(* returned and stop is set, the process does not go on to read: its next  *)
(* step leaves the loop, and once the loop is left no read is issued.      *)
C11_NoReadOnceStopped ==
    [][ /\ (pc = "check_stop" /\ stop = 1)
            => (pc' \in {"check_stop", "ungrab"} /\ rds' = rds)
        /\ pc \in {"ungrab", "returned"}
            => (pc' \in {"ungrab", "returned"} /\ rds' = rds) ]_vars

(* C11 witness: the loop was left with stop set while the descriptor was   *)
(* readable: events are queued and were not read.                          *)
C11_Witness ==
    /\ pc = "ungrab"
    /\ stop = 1
    /\ avail # << >>
    /\ rds = << >>

---------------------------------------------------------------------------
(* Claims about the query flow.                                            *)

InRange(code) ==
    0 <= code /\ code <= query_modes[find_query_mode("EV_KEY")].max

(* C6: do_query opens and queries the device only for a resolved code in   *)
(* 0 .. mode.max: such a code (mode.max included) is handed to             *)
(* query_device, any other (mode.max + 1, larger, negative) makes do_query *)
(* return a failure with no system call issued on the device.              *)
C6_RangeCheckedBeforeIO ==
    /\ qcalls # << >> => InRange(keycode)
    /\ (qpc # "do_query" /\ q_device # NULL /\ InRange(keycode))
          => (qpc = "query_device" \/ qcalls # << >>)
    /\ (qpc = "q_returned" /\ q_device # NULL /\ ~ InRange(keycode))
          => (qresult = EXIT_FAILURE /\ qcalls = << >>)

(* C6 witness: the code equal to mode.max was accepted and the device      *)
(* queried.                                                                *)
C6_Witness ==
    /\ qpc = "q_returned"
    /\ keycode = KEY_MAX
    /\ qcalls = << "open", "ioctl", "close" >>

(* C7: query_device returns 10 exactly when the request succeeded and the  *)
(* key is held, 0 exactly when it succeeded and the key is not held, and   *)
(* EXIT_FAILURE when the open or the request failed, whatever the buffer   *)
(* holds.                                                                  *)
C7_ThreeOutcomes ==
    (qpc = "q_returned" /\ qcalls # << >>) =>
        LET succeeded == Len(qcalls) >= 2 /\ r # -1
        IN  /\ qresult = 10 <=> (succeeded /\ keycode \in dev_keys)
            /\ qresult = 0 <=> (succeeded /\ keycode \notin dev_keys)
            /\ ~ succeeded => qresult = EXIT_FAILURE

(* C7 witness: a failed request whose buffer has the queried bit set       *)
(* returned EXIT_FAILURE.                                                  *)
C7_Witness ==
    /\ qpc = "q_returned"
    /\ r = -1
    /\ keycode = 64
    /\ test_bit(keycode, state)
    /\ qresult = EXIT_FAILURE

---------------------------------------------------------------------------
(* Claims about the name registry.                                         *)

Registered ==
    { [type |-> EV_KEY, code |-> p[1], name |-> p[2]] : p \in KeyNames }
    \cup { [type |-> EV_SYN, code |-> p[1], name |-> p[2]] : p \in SynNames }
    \cup { [type |-> EV_FF_STATUS, code |-> p[1], name |-> p[2]] :
              p \in ForceStatusNames }

TableBound(arr) ==
    CASE arr \in {"maxval", "names"} -> EV_MAX
      [] arr = "syns" -> SYN_MAX
      [] arr = "keys" -> KEY_MAX
      [] arr = "forcestatus" -> FF_STATUS_MAX

InBounds(read) == ULe(read[2], ToU32(TableBound(read[1])))

(* C8: codename is total and bounds-safe: every array element it reads is  *)
(* inside its array (maxval and names at an index <= EV_MAX, a sub-table   *)
(* at an index no greater than that table's last slot), and what it        *)
(* returns is the name registered for (type, code) or the sentinel "?".    *)
C8_CodenameSafe ==
    n_pc \in {"looked", "resolved"} =>
        /\ \A k \in DOMAIN n_look.reads : InBounds(n_look.reads[k])
        /\ \/ n_look.name = "?"
           \/ \E reg \in Registered :
                 /\ ToU32(reg.type) = n_type
                 /\ ToU32(reg.code) = n_code
                 /\ reg.name = n_look.name

(* C8 witness: a type whose maxval is -1 with the largest unsigned code:   *)
(* the comparison code <= maxval[type] passes (maxval converts to          *)
(* UINT_MAX), names[type] is read and is NULL, the result is "?".          *)
C8_Witness ==
    /\ n_pc = "looked"
    /\ n_type = ToU32(EV_ABS)
    /\ n_code = UINT_MAX
    /\ Len(n_look.reads) = 2
    /\ n_look.name = "?"

(* C9 as stated: for every type and code whose codename is not "?",        *)
(* get_keycode applied to that name returns the code.                      *)
C9_LeftInverseAllTypes ==
    n_pc = "resolved" => (n_back >= 0 /\ ToU32(n_back) = n_code)

(* C9 as amended: for every query mode m and every code c whose            *)
(* codename(m.event_type, c) is not "?", get_keycode(m, that name) = c.    *)
C9_LeftInverseOfMode ==
    (n_pc = "resolved" /\ \E m \in DOMAIN query_modes :
                              n_type = ToU32(query_modes[m].event_type))
        => (n_back >= 0 /\ ToU32(n_back) = n_code)

(* C9 witness: KEY_A resolved back to its code 30.                         *)
C9_Witness ==
    /\ n_pc = "resolved"
    /\ n_type = ToU32(EV_KEY)
    /\ n_look.name = "KEY_A"
    /\ n_back = 30

=============================================================================
